---- MODULE Spec2Model ----
(***************************************************************************)
(* Model of the server pool (src/server-pool.ts) and of the Express        *)
(* server resource it provisions (src/server-resource.ts).                 *)
(*                                                                         *)
(* One action is one run-to-completion step of the JavaScript event loop:  *)
(* the synchronous part of an API call, or an I/O callback together with   *)
(* the promise continuations it triggers (these run as microtasks, before  *)
(* any other callback).  The pool API (getOrCreate, shutdown) is called    *)
(* only while the pool resource is provided, that is while                 *)
(* pool = "running".                                                       *)
(*                                                                         *)
(* Structured-concurrency rules the code relies on (effection):            *)
(*  - scope.run starts the operation synchronously and runs it to its      *)
(*    first suspension;                                                    *)
(*  - halting a task first returns out of its body (finally blocks run,    *)
(*    catch blocks do not), then tears down the resources and tasks it     *)
(*    owns, and completes only when those have completed;                  *)
(*  - an error thrown by a spawned child does not enter the parent's       *)
(*    body: the parent is halted and fails with the child's error;         *)
(*  - a failed task run in a scope fails that scope, which halts every     *)
(*    other task of the scope.                                             *)
(***************************************************************************)
EXTENDS Integers, Sequences, FiniteSets, TLC

\* ------------------------------------------------------------------ bounds
MaxCalls == 3        \* getOrCreate calls
MaxHostLen == 5      \* characters of a Host value
MaxFewCalls == 2     \* getOrCreate calls where subscribers are modelled or
                     \* termination is checked

\* -------------------------------------------------------------- PoolConfig
maxServers == 2
basePort == 3001

\* Hostnames.  They are interchangeable, so a hostname is first used only
\* after those before it in KeySeq have been used.
KeySeq == <<"a", "b", "c">>
Keys == {KeySeq[i] : i \in 1..Len(KeySeq)}
None == "-"
Calls == 1..MaxCalls
\* Subscribers of pool.events.  They are interchangeable, so one subscribes
\* only after those before it in SubscriberSeq have subscribed.
SubscriberSeq == <<"s", "t">>
Subscribers == {SubscriberSeq[i] : i \in 1..Len(SubscriberSeq)}
\* A call admits at most one provisioning attempt.
Attempts == 1..MaxCalls

VARIABLES
  servers,           \* hostname -> attempt whose info is stored, 0 = absent
  serverTasks,       \* hostname -> attempt whose lifecycle task is stored
  pendingCreations,  \* hostname -> attempt whose spawn promise is stored
  nextPort,          \* the port counter
  events,            \* the events handed to emitEvent, grouped by attempt
                     \* (0: those of no attempt), each group in order
  eventsClosed,      \* events.close has been called
  info,              \* attempt -> the ServerInfo object doSpawnServer built
  life,              \* attempt -> position of the lifecycle task
  cause,             \* attempt -> why the lifecycle task left its body
  spawn,             \* attempt -> state of the spawn promise of getOrCreate
  svc,               \* attempt -> state of the http server
  nAtt,              \* number of attempts admitted so far
  calls,             \* getOrCreate calls
  shuts,             \* attempt -> the shutdown call awaiting its task.halt()
  pool,              \* "running", "terminating", "terminated"
  regAtTerm,         \* the registry as it was when termination began
  fwd,               \* call -> outcome of proxy.web for the request
  req,               \* a request whose routing key is extracted
  listed,            \* the array the list() call of this step returns
  subs,              \* subscriber -> its subscription to pool.events
  got                \* what the get() call of this step returns

vars == <<servers, serverTasks, pendingCreations, nextPort, events,
          eventsClosed, info, life, cause, spawn, svc, nAtt, calls, shuts,
          pool, regAtTerm, fwd, req, listed, subs, got>>

\* No request is having its key extracted.
NoRequest == [host |-> <<>>, app |-> <<>>, hasApp |-> FALSE, key |-> <<>>,
              done |-> FALSE]
NoInfo == [hostname |-> None, port |-> 0, server |-> FALSE]
\* No list() call returns in this step.
NotListed == [returned |-> FALSE, records |-> {}]
\* No get() call returns in this step.
NoGet == [returned |-> FALSE, hostname |-> None, rec |-> 0]
\* A subscriber that has not subscribed.
NoSubscription == [st |-> "none", queue |-> <<>>]
IdleCall == [st |-> "idle", hostname |-> None, att |-> 0, via |-> "none",
             rec |-> 0, err |-> "none"]

PoolInit ==
  /\ servers = [k \in Keys |-> 0]
  /\ serverTasks = [k \in Keys |-> 0]
  /\ pendingCreations = [k \in Keys |-> 0]
  /\ nextPort = basePort
  /\ events = [a \in 0..MaxCalls |-> <<>>]
  /\ eventsClosed = FALSE
  /\ info = [a \in Attempts |-> NoInfo]
  /\ life = [a \in Attempts |-> "none"]
  /\ cause = [a \in Attempts |-> "none"]
  /\ spawn = [a \in Attempts |-> "none"]
  /\ svc = [a \in Attempts |-> "none"]
  /\ nAtt = 0
  /\ calls = [c \in Calls |-> IdleCall]
  /\ shuts = [a \in Attempts |-> "none"]
  /\ pool = "running"
  /\ regAtTerm = [k \in Keys |-> 0]
  /\ fwd = [c \in Calls |-> "none"]
  /\ listed = NotListed
  /\ subs = [s \in Subscribers |-> NoSubscription]
  /\ got = NoGet

Init == PoolInit /\ req = NoRequest

UsedKeys == {calls[c].hostname : c \in Calls}
Usable(k) ==
  \E i \in 1..Len(KeySeq) :
    /\ KeySeq[i] = k
    /\ \A j \in 1..(i - 1) : KeySeq[j] \in UsedKeys

\* ------------------------------------------------------- events (emitEvent)
StartedEvent(k, p) ==
  [type |-> "started", hostname |-> k, port |-> p, msg |-> "none"]
StoppedEvent(k) ==
  [type |-> "stopped", hostname |-> k, port |-> 0, msg |-> "none"]
ErrorEvent(k, m) ==
  [type |-> "error", hostname |-> k, port |-> 0, msg |-> m]

EmitStartedCounterPort(evs, a) ==
  [evs EXCEPT ![a] = Append(@, StartedEvent(info[a].hostname, nextPort))]
EmitStartedNever(evs, a) == evs
EmitStarted(evs, a) ==
  [evs EXCEPT ![a] = Append(@, StartedEvent(info[a].hostname, info[a].port))]
EmitStoppedNever(evs, a) == evs
EmitStoppedFirst(evs, a) ==
  [evs EXCEPT ![a] = <<StoppedEvent(info[a].hostname)>> \o @]
EmitStopped(evs, a) ==
  [evs EXCEPT ![a] = Append(@, StoppedEvent(info[a].hostname))]
EmitErrorNever(evs, a, k, m) == evs
EmitError(evs, a, k, m) ==
  [evs EXCEPT ![a] = Append(@, ErrorEvent(k, m))]

\* events.close(): the end-of-stream item of a subscription's queue
Done == [type |-> "done", hostname |-> None, port |-> 0, msg |-> "none"]

\* What this step hands to the signal, in order: the events given to
\* emitEvent (those of one attempt, or of no attempt), then the close if the
\* pool resource leaves provide() in this step.
Sent ==
  LET changed == {a \in 0..MaxCalls : events'[a] # events[a]}
      sent == IF changed = {} THEN <<>>
              ELSE LET a == CHOOSE x \in changed : TRUE
                   IN  SubSeq(events'[a], Len(events[a]) + 1, Len(events'[a]))
  IN  sent \o (IF eventsClosed' /\ ~eventsClosed THEN <<Done>> ELSE <<>>)

\* A signal that sends to its first subscriber only.
DeliverToFirst(ss, items) ==
  [s \in Subscribers |->
     IF ss[s].st = "active" /\ s = SubscriberSeq[1]
       THEN [ss[s] EXCEPT !.queue = @ \o items] ELSE ss[s]]

\* events.send / events.close add to the queue of every subscription there
\* is at that moment, and return.
Deliver(ss, items) ==
  [s \in Subscribers |->
     IF ss[s].st = "active"
       THEN [ss[s] EXCEPT !.queue = @ \o items] ELSE ss[s]]

\* A signal whose send waits until every subscriber has emptied its queue.
BroadcastWhenDrained ==
  /\ \A s \in Subscribers : subs[s].queue = <<>>
  /\ subs' = Deliver(subs, Sent)
  /\ listed' = NotListed
  /\ got' = NoGet

\* What a step of the pool does to the subscriptions; it returns no list
\* and no record.
Broadcast ==
  /\ subs' = Deliver(subs, Sent)
  /\ listed' = NotListed
  /\ got' = NoGet

\* ------------------------------------------------------------ the registry
Registered == {k \in Keys : servers[k] # 0}
ReadyCount == Cardinality({k \in Registered : info[servers[k]].server})
\* servers.size
RegistrySize == Cardinality(Registered)
\* servers.size >= maxServers
AtCapacityOffByOne == RegistrySize > maxServers
AtCapacity == RegistrySize >= maxServers
ExistingNever(k) == FALSE
ExistingAny(k) == servers[k] # 0
\* existing && existing.server
ExistingReady(k) == servers[k] # 0 /\ info[servers[k]].server
\* pendingCreations.get(hostname)
PendingForNone(k) == 0
PendingFor(k) == pendingCreations[k]
\* nextPort++
PortAfterSame(p) == p
PortAfter(p) == p + 1
\* map.delete(hostname)
MapDeleteNoop(m, k) == m
MapDeleteAll(m, k) == [h \in Keys |-> 0]
MapDelete(m, k) == [m EXCEPT ![k] = 0]

\* The pool resource leaves provide(): its finally block closes the signal;
\* the tasks run in its scope are halted afterwards.
BeginTermination(srv) ==
  /\ pool' = "terminating"
  /\ eventsClosed' = TRUE
  /\ regAtTerm' = srv

\* A pool whose scope survives the failure of a task run in it.
PoolFailsContained(srv) == UNCHANGED <<pool, eventsClosed, regAtTerm>>
PoolFails(srv) ==
  IF pool = "running" THEN BeginTermination(srv)
  ELSE UNCHANGED <<pool, eventsClosed, regAtTerm>>

\* ------------------------------------------------ awaiting the spawn promise
\* Outcome of a call that awaited the spawn promise of its attempt.
SettledCall(call, outcome) ==
  IF outcome = "resolved"
    THEN [call EXCEPT !.st = "resolved", !.rec = call.att]
    ELSE [call EXCEPT !.st = "rejected",
            !.err = IF outcome = "halted" THEN "halted" ELSE "provision"]

\* Every call waiting on the spawn promise of attempt a resumes.
SettleCalls(cs, a, outcome) ==
  [c \in Calls |->
     IF cs[c].st = "waiting" /\ cs[c].att = a
       THEN SettledCall(cs[c], outcome) ELSE cs[c]]

\* The finally block of the creating call deletes the hostname's entry.
PendingDelete(pc, a) ==
  IF \E c \in Calls : /\ calls[c].st = "waiting" /\ calls[c].att = a
                      /\ calls[c].via = "owner"
    THEN MapDelete(pc, info[a].hostname) ELSE pc

\* The spawn promise of attempt a settles and the awaits on it resume.
SpawnSettles(a, outcome) ==
  /\ spawn' = [spawn EXCEPT ![a] = outcome]
  /\ calls' = SettleCalls(calls, a, outcome)
  /\ pendingCreations' = PendingDelete(pendingCreations, a)

\* -------------------------------------------------------------- getOrCreate
\* A fast path that returns whichever ready record it finds.
FastPathAnyReady(c, k) ==
  /\ ExistingReady(k)
  /\ \E h \in Keys :
       /\ ExistingReady(h)
       /\ calls' = [calls EXCEPT ![c] = [st |-> "resolved", hostname |-> k,
                      att |-> 0, via |-> "fast", rec |-> servers[h],
                      err |-> "none"]]
  /\ UNCHANGED <<servers, serverTasks, pendingCreations, nextPort, events,
                 eventsClosed, info, life, cause, spawn, svc, nAtt, shuts,
                 pool, regAtTerm>>

\* Fast path: the record exists and its server field is populated.
FastPath(c, k) ==
  /\ ExistingReady(k)
  /\ calls' = [calls EXCEPT ![c] = [st |-> "resolved", hostname |-> k,
                 att |-> 0, via |-> "fast", rec |-> servers[k], err |-> "none"]]
  /\ UNCHANGED <<servers, serverTasks, pendingCreations, nextPort, events,
                 eventsClosed, info, life, cause, spawn, svc, nAtt, shuts,
                 pool, regAtTerm>>

\* Deduplication: return the stored spawn promise.
Deduplicated(c, k) ==
  /\ ~ExistingReady(k)
  /\ PendingFor(k) # 0
  /\ calls' = [calls EXCEPT ![c] = [st |-> "waiting", hostname |-> k,
                 att |-> PendingFor(k), via |-> "dedup", rec |-> 0,
                 err |-> "none"]]
  /\ UNCHANGED <<servers, serverTasks, pendingCreations, nextPort, events,
                 eventsClosed, info, life, cause, spawn, svc, nAtt, shuts,
                 pool, regAtTerm>>

CapacityRejectedTakesPort(c, k) ==
  /\ ~ExistingReady(k)
  /\ PendingFor(k) = 0
  /\ AtCapacity
  /\ nextPort' = PortAfter(nextPort)
  /\ events' = EmitError(events, 0, k, "capacity")
  /\ calls' = [calls EXCEPT ![c] = [st |-> "rejected", hostname |-> k,
                 att |-> 0, via |-> "capacity", rec |-> 0,
                 err |-> "capacity"]]
  /\ UNCHANGED <<servers, serverTasks, pendingCreations,
                 eventsClosed, info, life, cause, spawn, svc, nAtt, shuts,
                 pool, regAtTerm>>

\* Capacity check fails: emit an error event and throw.
CapacityRejected(c, k) ==
  /\ ~ExistingReady(k)
  /\ PendingFor(k) = 0
  /\ AtCapacity
  /\ events' = EmitError(events, 0, k, "capacity")
  /\ calls' = [calls EXCEPT ![c] = [st |-> "rejected", hostname |-> k,
                 att |-> 0, via |-> "capacity", rec |-> 0,
                 err |-> "capacity"]]
  /\ UNCHANGED <<servers, serverTasks, pendingCreations, nextPort,
                 eventsClosed, info, life, cause, spawn, svc, nAtt, shuts,
                 pool, regAtTerm>>

\* Admission: take a port, run doSpawnServer in the pool's scope up to its
\* wait on readyPromise (placeholder stored, lifecycle task started and
\* waiting for listen, task stored), then store the spawn promise and await.
Admitted(c, k) ==
  /\ ~ExistingReady(k)
  /\ PendingFor(k) = 0
  /\ ~AtCapacity
  /\ LET a == nAtt + 1 IN
     /\ nAtt' = a
     /\ nextPort' = PortAfter(nextPort)
     /\ info' = [info EXCEPT ![a] =
                   [hostname |-> k, port |-> nextPort, server |-> FALSE]]
     /\ servers' = [servers EXCEPT ![k] = a]
     /\ life' = [life EXCEPT ![a] = "starting"]
     /\ svc' = [svc EXCEPT ![a] = "starting"]
     /\ serverTasks' = [serverTasks EXCEPT ![k] = a]
     /\ spawn' = [spawn EXCEPT ![a] = "running"]
     /\ pendingCreations' = [pendingCreations EXCEPT ![k] = a]
     /\ calls' = [calls EXCEPT ![c] = [st |-> "waiting", hostname |-> k,
                    att |-> a, via |-> "owner", rec |-> 0, err |-> "none"]]
  /\ UNCHANGED <<events, eventsClosed, cause, shuts, pool, regAtTerm>>

GetOrCreate(c, k) ==
  /\ pool = "running"
  /\ calls[c].st = "idle"
  /\ Usable(k)
  /\ \A d \in Calls : d < c => calls[d].st # "idle"
  /\ UNCHANGED <<fwd, req>>
  /\ \/ FastPath(c, k)
     \/ Deduplicated(c, k)
     \/ CapacityRejected(c, k)
     \/ Admitted(c, k)
  /\ Broadcast

\* ----------------------------------------------------- the lifecycle task
\* A cleanup that leaves the task entry behind.
LifecycleFinallyKeepsTask(a, evs) ==
  /\ events' = EmitStopped(evs, a)
  /\ servers' = MapDelete(servers, info[a].hostname)
  /\ serverTasks' = serverTasks

\* The finally block of the lifecycle task: emit stopped, delete the
\* hostname from both maps.
LifecycleFinally(a, evs) ==
  /\ events' = EmitStopped(evs, a)
  /\ servers' = MapDelete(servers, info[a].hostname)
  /\ serverTasks' = MapDelete(serverTasks, info[a].hostname)

\* Teardown of useExpressServer once it has provided: server.close() is
\* called and the task waits for the 'close' event.  A resource that is
\* still waiting for listen has not entered its try block: nothing closes
\* the server it asked to listen, and the task ends at once.
ResourceTeardown(a) ==
  IF life[a] = "ready"
    THEN /\ life' = [life EXCEPT ![a] = "closing"]
         /\ svc' = [svc EXCEPT ![a] = "closing"]
    ELSE /\ life' = [life EXCEPT ![a] = "done"]
         /\ UNCHANGED svc

\* A halt that is thrown into the body as an error: the catch block runs.
HaltThroughCatch(evs, a) == EmitError(evs, a, info[a].hostname, "halt")
\* A halt returns out of the body: the catch block does not run and nothing
\* is emitted before the finally block.
HaltReturn(evs, a) == evs

\* task.halt() on a lifecycle task that is still in its body.
HaltTask(a) ==
  /\ life[a] \in {"starting", "ready"}
  /\ LifecycleFinally(a, HaltReturn(events, a))
  /\ ResourceTeardown(a)
  /\ cause' = [cause EXCEPT ![a] = "halt"]

\* app.listen calls back.  If the lifecycle task is still waiting, the
\* resource provides the handle, the watcher is spawned, and the body fills
\* in the record, emits started, resolves readyPromise and suspends;
\* doSpawnServer returns the record and the awaits in getOrCreate resume.
ListenOk(a) ==
  /\ svc[a] = "starting"
  /\ svc' = [svc EXCEPT ![a] = "listening"]
  /\ IF life[a] = "starting"
       THEN /\ info' = [info EXCEPT ![a].server = TRUE]
            /\ events' = EmitStarted(events, a)
            /\ life' = [life EXCEPT ![a] = "ready"]
            /\ SpawnSettles(a, "resolved")
       ELSE UNCHANGED <<info, events, life, spawn, calls, pendingCreations>>
  /\ UNCHANGED <<servers, serverTasks, nextPort, eventsClosed, cause, nAtt,
                 shuts, pool, regAtTerm>>
  /\ UNCHANGED <<fwd, req>>
  /\ Broadcast

\* The server emits 'error' before listening.  If the lifecycle task is
\* still waiting, the error is thrown into its body: the catch block emits
\* error and rejects readyPromise, the finally block runs, and the task
\* fails, which fails the pool's scope.  The spawn task either sees the
\* rejection or is halted by the failing scope first; its promise rejects
\* either way.
ListenFail(a, outcome) ==
  /\ svc[a] = "starting"
  /\ svc' = [svc EXCEPT ![a] = "failed"]
  /\ IF life[a] = "starting"
       THEN /\ LifecycleFinally(a,
                 EmitError(events, a, info[a].hostname, "start"))
            /\ life' = [life EXCEPT ![a] = "done"]
            /\ cause' = [cause EXCEPT ![a] = "startfail"]
            /\ SpawnSettles(a, outcome)
            /\ PoolFails(MapDelete(servers, info[a].hostname))
       ELSE UNCHANGED <<events, servers, serverTasks, life, cause, spawn,
                        calls, pendingCreations, pool, eventsClosed,
                        regAtTerm>>
  /\ UNCHANGED <<nextPort, info, nAtt, shuts>>
  /\ UNCHANGED <<fwd, req>>
  /\ Broadcast

\* The server of a ready backend closes (closed = TRUE) or emits 'error'
\* (closed = FALSE) with no halt requested.  The watcher throws
\* ServerDaemonError; the lifecycle task is halted by its failed child: its
\* finally block runs, then the resource is torn down (server.close() and
\* the wait for 'close').
Crash(a, closed) ==
  /\ life[a] = "ready"
  /\ svc[a] = "listening"
  /\ LifecycleFinally(a, events)
  /\ life' = [life EXCEPT ![a] = "closing"]
  /\ svc' = [svc EXCEPT ![a] = IF closed THEN "closed" ELSE "closing"]
  /\ cause' = [cause EXCEPT ![a] = "daemon"]
  /\ UNCHANGED <<pendingCreations, nextPort, eventsClosed, info, spawn,
                 nAtt, calls, shuts, pool, regAtTerm>>
  /\ UNCHANGED <<fwd, req>>
  /\ Broadcast

\* A teardown that is left waiting when the server had closed before.
CloseConfirmedOnce(a) ==
  /\ life[a] = "closing"
  /\ svc[a] = "closing"
  /\ svc' = [svc EXCEPT ![a] = "closed"]
  /\ life' = [life EXCEPT ![a] = "done"]
  /\ shuts' = [shuts EXCEPT ![a] = IF @ = "waiting" THEN "returned" ELSE @]
  /\ UNCHANGED <<servers, serverTasks, pendingCreations, nextPort, events,
                 info, cause, spawn, nAtt, calls>>
  /\ IF cause[a] = "daemon"
       THEN PoolFails(servers)
       ELSE UNCHANGED <<pool, eventsClosed, regAtTerm>>
  /\ UNCHANGED <<fwd, req>>
  /\ Broadcast

\* The 'close' event that follows server.close(): the teardown of the
\* resource ends and with it the lifecycle task, and a shutdown call that
\* awaits the task's halt resumes.  A task that was halted by its watcher
\* ends failed, which fails the pool's scope.
CloseConfirmed(a) ==
  /\ life[a] = "closing"
  /\ svc' = [svc EXCEPT ![a] = "closed"]
  /\ life' = [life EXCEPT ![a] = "done"]
  /\ shuts' = [shuts EXCEPT ![a] = IF @ = "waiting" THEN "returned" ELSE @]
  /\ UNCHANGED <<servers, serverTasks, pendingCreations, nextPort, events,
                 info, cause, spawn, nAtt, calls>>
  /\ IF cause[a] = "daemon"
       THEN PoolFails(servers)
       ELSE UNCHANGED <<pool, eventsClosed, regAtTerm>>
  /\ UNCHANGED <<fwd, req>>
  /\ Broadcast

\* ----------------------------------------------------------------- shutdown
\* With no task stored for the hostname the call returns at once;
\* otherwise it halts the task and awaits the end of the halt: that of a
\* ready backend ends when its close is confirmed, that of a backend still
\* waiting for listen ends in this step.
Shutdown(k) ==
  /\ pool = "running"
  /\ k \in UsedKeys
  /\ IF serverTasks[k] # 0
       THEN /\ HaltTask(serverTasks[k])
            /\ shuts' = [shuts EXCEPT ![serverTasks[k]] =
                           IF life[serverTasks[k]] = "ready"
                             THEN "waiting" ELSE "returned"]
       ELSE UNCHANGED <<events, servers, serverTasks, life, svc, cause,
                        shuts>>
  /\ UNCHANGED <<pendingCreations, nextPort, eventsClosed, info, spawn,
                 nAtt, calls, pool, regAtTerm>>
  /\ UNCHANGED <<fwd, req>>
  /\ Broadcast

\* --------------------------------------------------- pool-wide termination
\* The scope that holds the pool exits.
TerminatePool ==
  /\ pool = "running"
  /\ BeginTermination(servers)
  /\ UNCHANGED <<servers, serverTasks, pendingCreations, nextPort, events,
                 info, life, cause, spawn, svc, nAtt, calls, shuts>>
  /\ UNCHANGED <<fwd, req>>
  /\ Broadcast

\* The terminating pool halts the tasks that attempt a still has in its
\* scope: the lifecycle task if it is in its body, and the spawn task if it
\* is still waiting on readyPromise (its promise rejects and the awaits in
\* getOrCreate resume).
HaltAttempt(a) ==
  /\ pool = "terminating"
  /\ life[a] \in {"starting", "ready"} \/ spawn[a] = "running"
  /\ IF life[a] \in {"starting", "ready"}
       THEN HaltTask(a)
       ELSE UNCHANGED <<events, servers, serverTasks, life, svc, cause>>
  /\ IF spawn[a] = "running"
       THEN SpawnSettles(a, "halted")
       ELSE UNCHANGED <<spawn, calls, pendingCreations>>
  /\ UNCHANGED <<nextPort, eventsClosed, info, nAtt, shuts, pool, regAtTerm>>
  /\ UNCHANGED <<fwd, req>>
  /\ Broadcast

\* Termination completes when every task of the scope has ended.
PoolTerminated ==
  /\ pool = "terminating"
  /\ \A a \in Attempts : life[a] \in {"none", "done"}
  /\ \A a \in Attempts : spawn[a] # "running"
  /\ pool' = "terminated"
  /\ UNCHANGED <<servers, serverTasks, pendingCreations, nextPort, events,
                 eventsClosed, info, life, cause, spawn, svc, nAtt, calls,
                 shuts, regAtTerm>>
  /\ UNCHANGED <<fwd, req>>
  /\ Broadcast

Next ==
  \/ \E c \in Calls, k \in Keys : GetOrCreate(c, k)
  \/ \E a \in Attempts : ListenOk(a)
  \/ \E a \in Attempts, o \in {"rejected", "halted"} : ListenFail(a, o)
  \/ \E a \in Attempts, closed \in BOOLEAN : Crash(a, closed)
  \/ \E a \in Attempts : CloseConfirmed(a)
  \/ \E k \in Keys : Shutdown(k)
  \/ TerminatePool
  \/ \E a \in Attempts : HaltAttempt(a)
  \/ PoolTerminated

Spec == Init /\ [][Next]_vars

\* A step of the pool, the getOrCreate calls being at most MaxFewCalls.
PoolFewCalls ==
  /\ Next
  /\ \A c \in Calls : c > MaxFewCalls => calls'[c].st = "idle"

FewCallsSpec == Init /\ [][PoolFewCalls]_vars

\* --------------------------------------------------------------------- list
\* s.server !== null
ListableAny(a) == TRUE
Listable(a) == info[a].server

\* list(): the values of the registry, filtered.  The array is given as
\* the set of its records.
List ==
  /\ listed' = [returned |-> TRUE,
                records |-> {servers[k] : k \in {h \in Registered :
                                                  Listable(servers[h])}}]
  /\ UNCHANGED <<servers, serverTasks, pendingCreations, nextPort, events,
                 eventsClosed, info, life, cause, spawn, svc, nAtt, calls,
                 shuts, pool, regAtTerm, fwd, req, subs>>
  /\ got' = NoGet

ListNext ==
  \/ Next
  \/ List

ListSpec == Init /\ [][ListNext]_vars

\* ---------------------------------------------------------------------- get
\* get(hostname): servers.get(hostname), a placeholder included; 0 stands
\* for undefined.
Get(k) ==
  /\ Usable(k)
  /\ got' = [returned |-> TRUE, hostname |-> k, rec |-> servers[k]]
  /\ listed' = NotListed
  /\ UNCHANGED <<servers, serverTasks, pendingCreations, nextPort, events,
                 eventsClosed, info, life, cause, spawn, svc, nAtt, calls,
                 shuts, pool, regAtTerm, fwd, req, subs>>

\* The pool with its two synchronous read operations.
ReadNext ==
  \/ Next
  \/ List
  \/ \E k \in Keys : Get(k)

ReadSpec == Init /\ [][ReadNext]_vars

\* ------------------------------------------------------- subscribers (each)
\* yield* each(pool.events): the signal gives the subscriber a queue of its
\* own, empty, and adds it to those it sends to.
Subscribe(s) ==
  /\ subs[s].st = "none"
  /\ \A i, j \in 1..Len(SubscriberSeq) :
       (i < j /\ SubscriberSeq[j] = s) => subs[SubscriberSeq[i]].st # "none"
  /\ subs' = [subs EXCEPT ![s] = [st |-> "active", queue |-> <<>>]]
  /\ listed' = NotListed
  /\ got' = NoGet
  /\ UNCHANGED <<servers, serverTasks, pendingCreations, nextPort, events,
                 eventsClosed, info, life, cause, spawn, svc, nAtt, calls,
                 shuts, pool, regAtTerm, fwd, req>>

\* The subscriber's loop takes the next item of its queue: an event is
\* handled; the end-of-stream item ends the loop and the subscription.
Consume(s) ==
  /\ subs[s].st = "active"
  /\ subs[s].queue # <<>>
  /\ subs' = [subs EXCEPT ![s] =
                IF Head(subs[s].queue) = Done
                  THEN [st |-> "ended", queue |-> <<>>]
                  ELSE [st |-> "active", queue |-> Tail(subs[s].queue)]]
  /\ listed' = NotListed
  /\ got' = NoGet
  /\ UNCHANGED <<servers, serverTasks, pendingCreations, nextPort, events,
                 eventsClosed, info, life, cause, spawn, svc, nAtt, calls,
                 shuts, pool, regAtTerm, fwd, req>>

BusNext ==
  \/ PoolFewCalls
  \/ \E s \in Subscribers : Subscribe(s)
  \/ \E s \in Subscribers : Consume(s)

BusSpec == Init /\ [][BusNext]_vars

\* ------------------------------------------------------------- switchboard
\* A getOrCreate call is the one the proxy handler makes for a request.  The
\* handler resumes in the step in which the call settles: on a record it
\* calls proxy.web (fwd = "none" until http-proxy reports an outcome), on an
\* error its catch block passes the error to the Express error handler.

\* res.headersSent
headersSent(c) == fwd[c] \in {"relayed", "relayedFailed"}

\* The port proxy.web is given for the request of call c:
\* `http://localhost:${serverInfo.port}` of the record getOrCreate returned.
Target(c) == info[calls[c].rec].port

\* The status of the response written for the request of call c: "500" by
\* the error handler, "502" by the proxy.web callback, "backend" when the
\* backend's own response is relayed, "none" while nothing is written.
Status(c) ==
  IF calls[c].st = "rejected" THEN "500"
  ELSE IF fwd[c] = "badGateway" THEN "502"
  ELSE IF headersSent(c) THEN "backend"
  ELSE "none"

\* The backend answers and http-proxy relays its response to the client.
ProxyResponse(c) ==
  /\ calls[c].st = "resolved"
  /\ fwd[c] = "none"
  /\ svc[calls[c].rec] \in {"listening", "closing"}
  /\ fwd' = [fwd EXCEPT ![c] = "relayed"]
  /\ UNCHANGED <<servers, serverTasks, pendingCreations, nextPort, events,
                 eventsClosed, info, life, cause, spawn, svc, nAtt, calls,
                 shuts, pool, regAtTerm, req, subs>>
  /\ listed' = NotListed
  /\ got' = NoGet

ProxyErrorEvicts(c) ==
  /\ calls[c].st = "resolved"
  /\ fwd[c] \in {"none", "relayed"}
  /\ fwd' = [fwd EXCEPT ![c] =
               IF headersSent(c) THEN "relayedFailed" ELSE "badGateway"]
  /\ servers' = MapDelete(servers, calls[c].hostname)
  /\ UNCHANGED <<serverTasks, pendingCreations, nextPort, events,
                 eventsClosed, info, life, cause, spawn, svc, nAtt, calls,
                 shuts, pool, regAtTerm, req, subs>>
  /\ listed' = NotListed
  /\ got' = NoGet

\* http-proxy reports a failure to the callback given to proxy.web: it
\* answers 502 unless the response headers have been sent.
ProxyError(c) ==
  /\ calls[c].st = "resolved"
  /\ fwd[c] \in {"none", "relayed"}
  /\ fwd' = [fwd EXCEPT ![c] =
               IF headersSent(c) THEN "relayedFailed" ELSE "badGateway"]
  /\ UNCHANGED <<servers, serverTasks, pendingCreations, nextPort, events,
                 eventsClosed, info, life, cause, spawn, svc, nAtt, calls,
                 shuts, pool, regAtTerm, req, subs>>
  /\ listed' = NotListed
  /\ got' = NoGet

RouterNext ==
  \/ Next
  \/ \E c \in Calls : ProxyResponse(c)
  \/ \E c \in Calls : ProxyError(c)

RouterSpec == Init /\ [][RouterNext]_vars

\* What the environment and the scheduler guarantee: listen calls back or
\* fails, a requested close is confirmed, a terminating scope halts its
\* tasks, an await resumes once its promise has settled, and http-proxy
\* reports an outcome for every proxy.web.  Requests, shutdown calls,
\* crashes and the exit of the pool's scope are not guaranteed to come.
ProxyOutcome(c) == fwd[c] = "none" /\ (ProxyResponse(c) \/ ProxyError(c))
ListenOutcome(a) ==
  ListenOk(a) \/ \E o \in {"rejected", "halted"} : ListenFail(a, o)

PoolFairness ==
  /\ \A a \in Attempts : WF_vars(ListenOutcome(a))
  /\ \A a \in Attempts : WF_vars(CloseConfirmed(a))
  /\ \A a \in Attempts : WF_vars(HaltAttempt(a))
  /\ WF_vars(PoolTerminated)

Fairness ==
  /\ PoolFairness
  /\ \A c \in Calls : WF_vars(ProxyOutcome(c))

FairRouterSpec == RouterSpec /\ Fairness

\* The pool alone, with what its environment guarantees.
FairSpec == FewCallsSpec /\ PoolFairness

\* A subscriber's loop goes on taking what its queue holds.
FairBusSpec ==
  BusSpec /\ PoolFairness /\ \A s \in Subscribers : WF_vars(Consume(s))


\* --------------------------------------------------------- extractHostname
\* Header values are sequences of characters; "8" stands for a digit and
\* "a", "b" for the other characters of a name.
Alphabet == {"a", "b", ".", ":", "8"}
Strings(n) == UNION {[1..m -> Alphabet] : m \in 0..n}
\* SwitchboardConfig.defaultHostname
defaultHostname == <<"d">>

\* s.indexOf(ch), counted from 1; 0 when ch does not occur
IndexOf(s, ch) ==
  IF \E i \in 1..Len(s) : s[i] = ch
    THEN CHOOSE i \in 1..Len(s) :
           s[i] = ch /\ \A j \in 1..(i - 1) : s[j] # ch
    ELSE 0
\* s.includes(ch)
Includes(s, ch) == IndexOf(s, ch) # 0
\* s.split(ch)[0]
SplitFirstWhole(s, ch) == s
SplitFirst(s, ch) ==
  IF Includes(s, ch) THEN SubSeq(s, 1, IndexOf(s, ch) - 1) ELSE s

\* A request carries a Host value (empty when the header is missing:
\* req.get('host') || '') and possibly an x-app-name value.
extractHostname(r, dflt) ==
  LET hostWithoutPort == SplitFirst(r.host, ":")
  IN  IF Includes(hostWithoutPort, ".")
        THEN SplitFirst(hostWithoutPort, ".")
        ELSE IF r.hasApp /\ r.app # <<>> THEN r.app
        ELSE dflt

Requests ==
  [host : Strings(MaxHostLen), app : {<<>>, <<"b">>}, hasApp : BOOLEAN,
   key : {<<>>}, done : {FALSE}]

ExtractInit == PoolInit /\ req \in Requests

\* The handler extracts the routing key of the request.
ExtractHostname ==
  /\ ~req.done
  /\ req' = [req EXCEPT !.key = extractHostname(req, defaultHostname),
                        !.done = TRUE]
  /\ UNCHANGED <<servers, serverTasks, pendingCreations, nextPort, events,
                 eventsClosed, info, life, cause, spawn, svc, nAtt, calls,
                 shuts, pool, regAtTerm, fwd, listed, subs, got>>

ExtractNext == ExtractHostname

ExtractSpec == ExtractInit /\ [][ExtractNext]_vars

\* ======================================================================
\* Properties
\* ======================================================================
Admitted_ == 1..nAtt
HasEvent(a, t) == \E i \in 1..Len(events[a]) : events[a][i].type = t
StoppedPublished(a) == HasEvent(a, "stopped")
RegCount == Cardinality({k \in Keys : servers[k] # 0})
InFlight(k) ==
  {a \in Attempts : info[a].hostname = k /\ life[a] = "starting"}

\* C1 -- Deduplication: at no time are two provisioning attempts for the
\* same hostname in flight; the getOrCreate calls for a hostname that are
\* waiting at the same time all wait on one attempt (the one whose promise
\* is the pending entry's), and the calls that waited on one attempt all end
\* the same way: if the attempt succeeded, resolved to that attempt's record.
C1_Deduplication ==
  /\ \A k \in Keys : Cardinality(InFlight(k)) <= 1
  /\ \A c, d \in Calls :
       (calls[c].st = "waiting" /\ calls[d].st = "waiting"
          /\ calls[c].hostname = calls[d].hostname)
         => calls[c].att = calls[d].att
  /\ \A c \in Calls :
       calls[c].st = "waiting" => info[calls[c].att].hostname = calls[c].hostname
  /\ \A c, d \in Calls :
       (calls[c].att # 0 /\ calls[c].att = calls[d].att
          /\ calls[c].st # "waiting" /\ calls[d].st # "waiting")
         => /\ calls[c].st = calls[d].st
            /\ calls[c].rec = calls[d].rec
            /\ calls[c].err = calls[d].err
  /\ \A c \in Calls :
       (calls[c].att # 0 /\ calls[c].st = "resolved")
         => /\ calls[c].rec = calls[c].att
            /\ info[calls[c].rec].hostname = calls[c].hostname
            /\ info[calls[c].rec].server

C1_Witness ==
  \E c, d \in Calls :
    /\ c # d
    /\ calls[c].via = "owner" /\ calls[d].via = "dedup"
    /\ calls[c].st = "resolved" /\ calls[d].st = "resolved"
    /\ calls[c].rec = calls[d].rec
    /\ nAtt = 1

\* C2 -- Capacity invariant: in every reachable state the registry (ready
\* records and placeholders) holds at most maxServers records.
C2_Capacity == RegCount <= maxServers

C2_Witness ==
  /\ RegCount = maxServers
  /\ \A k \in Keys : servers[k] # 0 => life[servers[k]] = "starting"
  /\ \E c \in Calls : calls[c].err = "capacity"

\* C3 -- Port uniqueness: the ports of the admitted attempts are strictly
\* increasing in admission order, so none is assigned twice, also after the
\* backend that held one was torn down or failed; the counter is above all.
C3_PortsIncreasing ==
  /\ \A a, b \in Admitted_ : a < b => info[a].port < info[b].port
  /\ \A a \in Admitted_ : basePort <= info[a].port /\ info[a].port < nextPort

C3_Witness ==
  \E a, b \in Admitted_ :
    /\ a < b
    /\ life[a] = "done" /\ info[a].server
    /\ info[b].hostname = info[a].hostname
    /\ info[b].port > info[a].port

C5_ShutdownWaitsForClose ==
  \A a \in Attempts :
    shuts[a] = "returned"
      => /\ StoppedPublished(a)
         /\ servers[info[a].hostname] # a
         /\ svc[a] \in {"closed", "failed"}

C7_CrashPublishesErrorThenStopped ==
  \A a \in Attempts :
    cause[a] = "daemon"
      => \E i, j \in 1..Len(events[a]) :
           /\ i < j
           /\ events[a][i].type = "error"
           /\ events[a][j].type = "stopped"

\* C8 -- Provisioning failure: when the service fails to start, an error
\* event and no started event is published for the attempt, the creating
\* call and every call deduplicated onto it are rejected with one and the
\* same error, and no record, task or pending entry of the hostname remains.
C8_ProvisioningFailure ==
  \A a \in Attempts :
    cause[a] = "startfail"
      => /\ HasEvent(a, "error")
         /\ ~HasEvent(a, "started")
         /\ spawn[a] \in {"rejected", "halted"}
         /\ \E c \in Calls : calls[c].att = a /\ calls[c].via = "owner"
         /\ \A c \in Calls :
              calls[c].att = a
                => /\ calls[c].st = "rejected"
                   /\ calls[c].err =
                        (IF spawn[a] = "halted" THEN "halted" ELSE "provision")
         /\ servers[info[a].hostname] = 0
         /\ serverTasks[info[a].hostname] = 0
         /\ pendingCreations[info[a].hostname] = 0

C8_Witness ==
  \E a \in Attempts, c, d \in Calls :
    /\ cause[a] = "startfail"
    /\ calls[c].att = a /\ calls[c].via = "owner"
    /\ calls[d].att = a /\ calls[d].via = "dedup"
    /\ calls[d].st = "rejected"

\* C9 (as claimed) -- a pending-creation entry is present only while the
\* provisioning attempt it stands for is in flight.
C9_PendingOnlyWhileInFlight ==
  \A k \in Keys :
    pendingCreations[k] # 0 => life[pendingCreations[k]] = "starting"

\* C10 -- Capacity error: a getOrCreate for a hostname with no record and no
\* pending entry is rejected with the capacity error, leaving no record, task
\* or pending entry for it, exactly when the registry holds maxServers
\* records; below that it is admitted.
C10_CapacityError ==
  [][\A c \in Calls, k \in Keys :
       (/\ calls[c].st = "idle" /\ calls'[c].st # "idle"
        /\ calls'[c].hostname = k
        /\ servers[k] = 0 /\ pendingCreations[k] = 0)
         => IF RegCount >= maxServers
              THEN /\ calls'[c].st = "rejected" /\ calls'[c].err = "capacity"
                   /\ servers'[k] = 0 /\ serverTasks'[k] = 0
                   /\ pendingCreations'[k] = 0
                   /\ nAtt' = nAtt
              ELSE /\ calls'[c].st = "waiting" /\ calls'[c].via = "owner"
                   /\ servers'[k] = nAtt' /\ nAtt' = nAtt + 1]_vars

C10_Witness ==
  /\ RegCount = maxServers
  /\ Cardinality({calls[c].hostname : c \in {d \in Calls :
                     calls[d].st = "resolved"}}) = maxServers
  /\ \E c \in Calls :
       /\ calls[c].err = "capacity"
       /\ servers[calls[c].hostname] = 0
       /\ pendingCreations[calls[c].hostname] = 0

\* A getOrCreate call is rejected at the capacity check in this step.
CapacityStep(c) == calls[c].st = "idle" /\ calls'[c].err = "capacity"

CallStep(c, k) ==
  calls[c].st = "idle" /\ calls'[c].st # "idle" /\ calls'[c].hostname = k

\* The backends of hostname k that shutdown or a crash has removed.
Removed(k) ==
  {a \in Attempts : /\ info[a].hostname = k
                    /\ cause[a] \in {"halt", "daemon"}
                    /\ servers[k] # a}

\* C12 (as claimed) -- a getOrCreate(k) made after the backend of k was
\* removed by shutdown(k) or by a crash, and while k has no record, does
\* not return the old record: it starts a fresh provisioning attempt, with
\* a port above the old one's, and a record it resolves to is the new one
\* (a call the capacity check rejects aside).
C12_FreshAttemptAfterRemoval ==
  [][\A c \in Calls, k \in Keys :
       (CallStep(c, k) /\ Removed(k) # {} /\ servers[k] = 0)
         => \/ calls'[c].err = "capacity"
            \/ /\ nAtt' = nAtt + 1
               /\ calls'[c].att = nAtt'
               /\ calls'[c].st = "waiting"
               /\ servers'[k] = nAtt'
               /\ \A a \in Removed(k) : info'[nAtt'].port > info[a].port]_vars

\* C13 -- Creation: a getOrCreate(k) admitted under the cap adds exactly one
\* attempt, whose record carries k and the port the counter held at the
\* call (for a never-before-seen k it is the only attempt of k); the key and
\* port of a record never change; and when the creating call resolves, it
\* resolves to that record, ready, and the one event published for the
\* attempt is started with the same key and port.
C13_CreatesOneBackend ==
  [][/\ \A a \in 1..nAtt :
          /\ info'[a].hostname = info[a].hostname
          /\ info'[a].port = info[a].port
     /\ \A c \in Calls, k \in Keys :
          (CallStep(c, k) /\ calls'[c].via = "owner")
            => /\ nAtt' = nAtt + 1
               /\ calls'[c].att = nAtt'
               /\ info'[nAtt'] =
                    [hostname |-> k, port |-> nextPort, server |-> FALSE]
               /\ servers'[k] = nAtt'
               /\ k \notin UsedKeys
                    => {a \in Attempts : info'[a].hostname = k} = {nAtt'}
     /\ \A c \in Calls :
          (/\ calls[c].via = "owner" /\ calls[c].st = "waiting"
           /\ calls'[c].st = "resolved")
            => /\ calls'[c].rec = calls[c].att
               /\ info'[calls[c].att].server
               /\ events'[calls[c].att] =
                    <<StartedEvent(calls[c].hostname,
                                   info[calls[c].att].port)>>]_vars

C13_Witness ==
  \E c \in Calls :
    /\ calls[c].via = "owner" /\ calls[c].st = "resolved"
    /\ calls[c].hostname = "b" /\ calls[c].rec = 2
    /\ info[2] = [hostname |-> "b", port |-> basePort + 1, server |-> TRUE]
    /\ events[2] = <<StartedEvent("b", basePort + 1)>>
    /\ nextPort > basePort + 2

\* C14 -- Fast path: a getOrCreate(k) made while a ready record of k is in
\* the registry resolves at once to that record and leaves the registry,
\* the task map, the pending-creation map, the port counter and the
\* published events as they were, also when the registry is at capacity.
C14_FastPathFrame ==
  [][\A c \in Calls, k \in Keys :
       (CallStep(c, k) /\ servers[k] # 0 /\ info[servers[k]].server)
         => /\ calls'[c].st = "resolved"
            /\ calls'[c].rec = servers[k]
            /\ servers' = servers /\ info' = info
            /\ serverTasks' = serverTasks
            /\ pendingCreations' = pendingCreations
            /\ nextPort' = nextPort /\ nAtt' = nAtt
            /\ events' = events]_vars

C14_Witness ==
  /\ RegCount = maxServers
  /\ \E c \in Calls :
       /\ calls[c].via = "fast" /\ calls[c].st = "resolved"
       /\ servers[calls[c].hostname] = calls[c].rec
       /\ info[calls[c].rec].server
       /\ events[0] = <<>>
       /\ nextPort = basePort + maxServers

\* C15 -- Readiness: the fast path is taken only for a record whose service
\* handle is populated; a call never resolves to a record whose handle is
\* not populated; and a call made while the record of its hostname is a
\* placeholder waits on the attempt that registered it, starting no second
\* attempt and leaving the registry as it was.
C15_OnlyReadyRecordsReturned ==
  [][/\ \A c \in Calls :
          calls'[c].st = "resolved" => info'[calls'[c].rec].server
     /\ \A c \in Calls, k \in Keys :
          (CallStep(c, k) /\ calls'[c].via = "fast")
            => servers[k] # 0 /\ info[servers[k]].server
     /\ \A c \in Calls, k \in Keys :
          (CallStep(c, k) /\ servers[k] # 0 /\ ~info[servers[k]].server)
            => /\ calls'[c].st = "waiting"
               /\ calls'[c].att = servers[k]
               /\ nAtt' = nAtt
               /\ servers' = servers]_vars

C15_Witness ==
  \E c \in Calls :
    /\ calls[c].via = "dedup" /\ calls[c].st = "waiting"
    /\ servers[calls[c].hostname] = calls[c].att
    /\ ~info[calls[c].att].server
    /\ events[calls[c].att] = <<>>
    /\ nAtt = 1

EventTypes(a) == [i \in 1..Len(events[a]) |-> events[a][i].type]

\* C16 -- Per-attempt event ordering: among the events published for one
\* provisioning attempt, nothing follows stopped and nothing precedes
\* started, so an error event comes before stopped and started before both.
C16_EventOrder ==
  \A a \in Attempts :
    \A i, j \in 1..Len(events[a]) :
      i < j => /\ events[a][i].type # "stopped"
               /\ events[a][j].type # "started"

C16_Witness ==
  \E a, b \in Attempts :
    /\ EventTypes(a) = <<"error", "stopped">>
    /\ EventTypes(b) = <<"started", "stopped">>

\* C17 (as claimed) -- a request whose getOrCreate failed with the capacity
\* error or with a provisioning failure is answered 503 or 502.
C17_FailureAnswered503Or502 ==
  \A c \in Calls :
    calls[c].err \in {"capacity", "provision"} => Status(c) \in {"502", "503"}

\* C19 (as claimed) -- every request the router has accepted is eventually
\* answered: forwarded, or given an error response.
C19_EveryRequestAnswered ==
  \A c \in Calls : (calls[c].st # "idle") ~> (Status(c) # "none")

\* The proxy.web callback of call c reports a failure in this step.
ProxyErrorStep(c) ==
  fwd'[c] # fwd[c] /\ fwd'[c] \in {"badGateway", "relayedFailed"}

\* The pool is left as it was.
PoolUnchanged ==
  UNCHANGED <<servers, serverTasks, pendingCreations, nextPort, events,
              eventsClosed, info, life, cause, spawn, svc, nAtt, calls,
              shuts, pool, regAtTerm>>

BeforeColon(h) ==
  SubSeq(h, 1, CHOOSE n \in 0..Len(h) :
                 /\ \A i \in 1..n : h[i] # ":"
                 /\ n = Len(h) \/ h[n + 1] = ":")
\* A Host value of the form name or name:port: what follows the first ":"
\* is made of digits.
Digits(s) == \A i \in 1..Len(s) : s[i] = "8"
HostPort(h) == Digits(SubSeq(h, Len(BeforeColon(h)) + 2, Len(h)))
\* The first dot-separated label of a string that contains a dot.
FirstLabel(s) ==
  SubSeq(s, 1, (CHOOSE n \in 1..Len(s) :
                  s[n] = "." /\ \A i \in 1..(n - 1) : s[i] # ".") - 1)
HasDot(s) == \E i \in 1..Len(s) : s[i] = "."

C21_RoutingSafety ==
  \A c \in Calls :
    /\ fwd[c] # "none" => calls[c].st = "resolved"
    /\ calls[c].st = "resolved"
         => /\ info[calls[c].rec].hostname = calls[c].hostname
            /\ info[calls[c].rec].server
            /\ \A a \in Admitted_ :
                 info[a].port = Target(c)
                   => info[a].hostname = calls[c].hostname

C21_Witness ==
  \E c, d \in Calls :
    /\ calls[c].hostname = "a" /\ calls[d].hostname = "b"
    /\ fwd[c] = "relayed" /\ fwd[d] = "relayed"
    /\ calls[c].via = "fast"
    /\ Target(c) = basePort /\ Target(d) = basePort + 1

\* C25 -- list() returns exactly the records of the registry whose service
\* handle is populated at the time of the call, no placeholder among them,
\* and changes nothing of the pool: registry, maps, counter, events, tasks.
C25_ListReturnsReadyRecords ==
  [][listed'.returned
       => /\ listed'.records =
               {a \in Attempts :
                  \E k \in Keys : servers[k] = a /\ info[a].server}
          /\ \A a \in listed'.records : life[a] # "starting"
          /\ PoolUnchanged
          /\ subs' = subs]_vars

C25_Witness ==
  /\ listed.returned
  /\ listed.records = {1}
  /\ \E k \in Keys : servers[k] = 2 /\ ~info[2].server /\ life[2] = "starting"

\* The lifecycle task of attempt a has ended.
Ended(a) == life[a] \in {"none", "done"}

\* C26 -- No crash isolation: the unexpected termination of a ready backend
\* halts its lifecycle task with the watcher's error; when that task ends,
\* failed, the pool stops running (its signal is closed and it accepts no
\* call); and from then on every other backend's lifecycle task is torn
\* down too, until none is left and the pool has terminated.
C26_NoCrashIsolation ==
  /\ [][\A a \in Attempts :
          /\ (life[a] = "ready" /\ cause'[a] = "daemon")
               => life'[a] = "closing"
          /\ (cause[a] = "daemon" /\ ~Ended(a) /\ Ended(a)')
               => (pool' # "running" /\ eventsClosed')]_vars
  /\ [](\A a \in Attempts :
          (cause[a] = "daemon" /\ Ended(a))
            => (pool # "running" /\ ~ENABLED (\E c \in Calls, k \in Keys :
                                                 GetOrCreate(c, k))))
  /\ \A a \in Attempts :
       (cause[a] = "daemon")
         ~> (pool = "terminated" /\ \A b \in Attempts : Ended(b))

C26_Witness ==
  \E a, b \in Attempts :
    /\ a # b
    /\ cause[a] = "daemon" /\ Ended(a)
    /\ info[b].server /\ cause[b] = "halt" /\ shuts[b] = "none"
    /\ StoppedPublished(b)
    /\ pool = "terminated"

CleanupStep(a) == StoppedPublished(a)' /\ ~StoppedPublished(a)

\* C27 -- Cleanup frame: the cleanup of a lifecycle task finds the registry
\* entry of its hostname to be its own attempt's and removes that entry and
\* its task entry only, every other hostname's entries staying as they
\* were; and an entry is removed from the registry or the task map only in
\* a step in which the attempt it belongs to runs its cleanup, so never by
\* the cleanup or the later teardown of an earlier attempt.
C27_CleanupRemovesOwnEntriesOnly ==
  [][/\ \A a \in Attempts :
          CleanupStep(a)
            => /\ servers[info[a].hostname] = a
               /\ serverTasks[info[a].hostname] = a
               /\ servers'[info[a].hostname] = 0
               /\ serverTasks'[info[a].hostname] = 0
               /\ \A k \in Keys \ {info[a].hostname} :
                    /\ servers'[k] = servers[k]
                    /\ serverTasks'[k] = serverTasks[k]
     /\ \A k \in Keys, a \in Attempts :
          /\ (servers[k] = a /\ servers'[k] # a) => CleanupStep(a)
          /\ (serverTasks[k] = a /\ serverTasks'[k] # a)
               => CleanupStep(a)]_vars

C27_Witness ==
  \E a, b \in Attempts, k, h \in Keys :
    /\ a < b /\ k # h
    /\ info[a].hostname = k /\ info[b].hostname = k
    /\ info[a].server /\ cause[a] = "halt" /\ life[a] = "done"
    /\ servers[k] = b /\ serverTasks[k] = b
    /\ servers[h] # 0 /\ serverTasks[h] = servers[h]

\* The backend services of hostname k that listen or are being closed.
LiveServices(k) ==
  {a \in Attempts : info[a].hostname = k /\ svc[a] \in {"listening", "closing"}}
\* The attempts of hostname k whose lifecycle task is in its body.
InBody(k) ==
  {a \in Attempts : info[a].hostname = k /\ life[a] \in {"starting", "ready"}}

C23_EndOfStreamDelivered ==
  \A s \in Subscribers :
    (eventsClosed /\ subs[s].st = "active") ~> (subs[s].st = "ended")

\* C24 -- Publishing never blocks: whatever the subscribers and their
\* queues, every step of the pool that publishes can be taken whenever the
\* pool's own state allows it, and the step that publishes also does what
\* follows the publication in the code (readiness resolved after started,
\* the map entries deleted after stopped).
C24_PublishNeverBlocks ==
  /\ [](\A a \in Attempts :
          /\ svc[a] = "starting"
               => (ENABLED ListenOk(a) /\ ENABLED ListenFail(a, "rejected"))
          /\ (life[a] = "ready" /\ svc[a] = "listening")
               => ENABLED Crash(a, TRUE)
          /\ (pool = "terminating" /\ life[a] \in {"starting", "ready"})
               => ENABLED HaltAttempt(a))
  /\ [](\A k \in Keys :
          (pool = "running" /\ k \in UsedKeys) => ENABLED Shutdown(k))
  /\ [](pool = "running" => ENABLED TerminatePool)
  /\ [][\A a \in Attempts :
          /\ (HasEvent(a, "started")' /\ ~HasEvent(a, "started"))
               => (info'[a].server /\ spawn'[a] = "resolved")
          /\ CleanupStep(a)
               => (servers'[info[a].hostname] = 0
                   /\ serverTasks'[info[a].hostname] = 0)]_vars

C24_Witness ==
  /\ subs["s"].st = "active" /\ Len(subs["s"].queue) >= 3
  /\ subs["t"].st = "none"
  /\ \E a \in Attempts : StoppedPublished(a) /\ servers[info[a].hostname] = 0
  /\ pool = "running"

\* C29 (as claimed) -- nothing is sent on the bus after its close: in the
\* queue of a subscription no event follows the end-of-stream.
C29_NoEventAfterClose ==
  \A s \in Subscribers :
    \A i \in 1..Len(subs[s].queue) :
      subs[s].queue[i] = Done => i = Len(subs[s].queue)

\* The number of events of type t published for attempt a.
CountEvents(a, t) ==
  Cardinality({i \in 1..Len(events[a]) : events[a][i].type = t})
\* The lifecycle task of attempt a has left its body.
LeftBody(a) == life[a] \in {"closing", "done"}

\* C31 -- Exactly one stopped per attempt: an admitted attempt whose
\* lifecycle task is in its body has no stopped event; in the step in which
\* the task leaves its body, whatever the reason, one stopped event is
\* published for it; from then on, and when the task has ended, it has
\* exactly one, also when started was never published for it.
C31_ExactlyOneStopped ==
  /\ [](\A a \in Attempts :
          /\ CountEvents(a, "stopped") = (IF LeftBody(a) THEN 1 ELSE 0)
          /\ a \notin Admitted_ => events[a] = <<>>)
  /\ [][\A a \in Attempts :
          (~LeftBody(a) /\ LeftBody(a)')
            => /\ events'[a][Len(events'[a])] = StoppedEvent(info[a].hostname)
               /\ CountEvents(a, "stopped")' = 1]_vars

C31_Witness ==
  \E a, b, c \in Attempts :
    /\ EventTypes(a) = <<"started", "stopped">> /\ cause[a] = "halt"
    /\ EventTypes(b) = <<"stopped">> /\ cause[b] = "halt"
    /\ EventTypes(c) = <<"error", "stopped">> /\ cause[c] = "startfail"
    /\ life[a] = "done" /\ life[b] = "done" /\ life[c] = "done"

\* C32 -- Shutdown publishes no error: a shutdown(k) that halts the ready
\* backend of k publishes stopped{k} for it in that step and nothing else,
\* no error event is ever published for an attempt that was halted, and the
\* pool goes on running when its close is confirmed; every error event
\* published for an attempt belongs to a start failure or an unexpected
\* termination, and every other one to a capacity rejection of a call.
C32_ShutdownPublishesNoError ==
  /\ [][\A a \in Attempts :
          (shuts[a] = "none" /\ shuts'[a] = "waiting")
            => /\ events'[a] = Append(events[a], StoppedEvent(info[a].hostname))
               /\ \A b \in (0..MaxCalls) \ {a} : events'[b] = events[b]
               /\ pool' = "running"]_vars
  /\ [](\A a \in Attempts :
          /\ cause[a] = "halt" => ~HasEvent(a, "error")
          /\ HasEvent(a, "error") => cause[a] \in {"startfail", "daemon"}
          /\ (shuts[a] = "returned" /\ info[a].server /\ pool = "running")
               => EventTypes(a) = <<"started", "stopped">>)
  /\ [](\A i \in 1..Len(events[0]) :
          /\ events[0][i].type = "error" /\ events[0][i].msg = "capacity"
          /\ \E c \in Calls : /\ calls[c].err = "capacity"
                              /\ calls[c].hostname = events[0][i].hostname)

C32_Witness ==
  \E a, b \in Attempts :
    /\ shuts[a] = "returned" /\ info[a].server /\ cause[a] = "halt"
    /\ EventTypes(a) = <<"started", "stopped">>
    /\ EventTypes(b) = <<"error", "stopped">>
    /\ Len(events[0]) = 1

\* A getOrCreate call is admitted in this step.
AdmissionStep ==
  /\ nAtt' = nAtt + 1
  /\ \E c \in Calls : calls[c].st = "idle" /\ calls'[c].via = "owner"

\* C33 -- Port counter: in every reachable state nextPort is basePort plus
\* the number of attempts admitted so far; a step changes it only by
\* admitting a call, and then by exactly one; a call that takes the fast
\* path, is deduplicated onto a pending creation or is rejected at the
\* capacity check, a get, a list and a shutdown leave it as it was.
C33_PortCounter ==
  /\ [](nextPort = basePort + nAtt)
  /\ [][/\ nextPort' # nextPort => (AdmissionStep /\ nextPort' = nextPort + 1)
        /\ AdmissionStep => nextPort' = nextPort + 1
        /\ \A c \in Calls :
             (calls[c].st = "idle"
                /\ calls'[c].via \in {"fast", "dedup", "capacity"})
               => nextPort' = nextPort
        /\ (got'.returned \/ listed'.returned) => nextPort' = nextPort
        /\ (\E a \in Attempts : shuts'[a] # shuts[a])
             => nextPort' = nextPort]_vars

C33_Witness ==
  /\ nextPort = basePort + 2
  /\ nAtt = 2
  /\ \E c, d, e \in Calls :
       /\ calls[c].via = "owner" /\ calls[d].via = "owner"
       /\ c # d /\ calls[e].via = "capacity"
  /\ \E a \in Attempts : shuts[a] = "returned"
  /\ got.returned /\ got.rec # 0

\* The admitted attempts whose lifecycle task has not run its cleanup.
NotCleanedUp == {a \in Admitted_ : ~LeftBody(a)}

C35_StartedOnceBeforeResolved ==
  /\ [](\A a \in Attempts :
          /\ CountEvents(a, "started")
               = (IF spawn[a] = "resolved" THEN 1 ELSE 0)
          /\ HasEvent(a, "started")
               => /\ info[a].server
                  /\ events[a][1] = StartedEvent(info[a].hostname, info[a].port)
          /\ \A c \in Calls :
               (calls[c].st = "resolved" /\ calls[c].rec = a)
                 => HasEvent(a, "started"))
  /\ [][\A a \in Attempts :
          (HasEvent(a, "started")' /\ ~HasEvent(a, "started"))
            => /\ ~info[a].server
               /\ \A c \in Calls :
                    /\ calls[c].att = a => calls[c].st = "waiting"
                    /\ calls[c].rec # a]_vars

C35_Witness ==
  \E a \in Attempts, c, d, e \in Calls :
    /\ spawn[a] = "resolved"
    /\ calls[c].via = "owner" /\ calls[c].st = "resolved" /\ calls[c].rec = a
    /\ calls[d].via = "dedup" /\ calls[d].st = "resolved" /\ calls[d].rec = a
    /\ calls[e].via = "fast" /\ calls[e].rec = a
    /\ events[a] = <<StartedEvent(info[a].hostname, info[a].port)>>

\* C36 -- Registry and task map agree: between the steps of the pool the
\* two maps have the same hostnames, the task stored for a hostname is the
\* lifecycle task of the attempt whose record is registered for it, and
\* that task is still in its body: it has not run its cleanup, so no entry
\* of a task that has run it is left in either map.
C36_RegistryTaskMapConsistent ==
  \A k \in Keys :
    /\ (servers[k] # 0) <=> (serverTasks[k] # 0)
    /\ serverTasks[k] = servers[k]
    /\ serverTasks[k] # 0
         => /\ info[serverTasks[k]].hostname = k
            /\ ~LeftBody(serverTasks[k])
            /\ ~StoppedPublished(serverTasks[k])

C36_Witness ==
  \E a, b, c \in Attempts, k, h \in Keys :
    /\ a < b /\ k # h
    /\ info[a].hostname = k /\ info[b].hostname = k /\ info[c].hostname = h
    /\ life[a] = "closing" /\ StoppedPublished(a)
    /\ servers[k] = b /\ serverTasks[k] = b /\ life[b] = "starting"
    /\ cause[c] = "startfail" /\ servers[h] = 0 /\ serverTasks[h] = 0

====
